---- MODULE Spec2Model ----
(***************************************************************************)
(* Model of mywork/lab4/iss.py: the ISS-position ETL script.               *)
(*                                                                         *)
(*   extract  : one HTTP GET, JSON parse, audit copy written to disk       *)
(*   transform: projection of four fields, epoch seconds -> datetime       *)
(*   load     : append of one row to a CSV file (header on creation)       *)
(*   main     : argv handling, audit path derivation, the three stages     *)
(*                                                                         *)
(* Text is modelled as a sequence: a path is a sequence of one-character   *)
(* strings, a file's content is a sequence of text tokens in which the     *)
(* token "\n" is the line terminator.                                      *)
(***************************************************************************)
EXTENDS Integers, Sequences, FiniteSets, TLC

VARIABLES
    \* ---- a sequence of runs of main() over one file system
    pc,           \* position of the process: idle, main, extract, transform, load, exited
    argv,         \* sys.argv[1:] of the current run: <<>> or <<path>>
    json_file,    \* main's local json_file
    raw,          \* main's local raw (the value extract returned)
    clean_data,   \* main's local clean_data (the value transform returned)
    exit_status,  \* exit status of the run, -1 while it is running
    fs,           \* the file system: path -> file
    runs,         \* number of runs started
    stages,       \* the stages entered in the current run, in order
    gets,         \* HTTP GETs issued in the current run
    writes,       \* audit-file writes completed in the current run
    csv_before,   \* the file at the CSV path when the current run started
    \* ---- the audit path derivation on its own
    p_arg, p_json,
    \* ---- transform on its own
    t_raw, t_out,
    \* ---- sequential calls of load on one path
    l_file, l_init, l_prev, l_calls,
    \* ---- two concurrent calls of load on one path
    r_file, r_init, r_pc, r_rec, r_seen, r_order

mainVars == <<pc, argv, json_file, raw, clean_data, exit_status, fs, runs,
              stages, gets, writes, csv_before>>
pathVars == <<p_arg, p_json>>
transVars == <<t_raw, t_out>>
loadVars == <<l_file, l_init, l_prev, l_calls>>
raceVars == <<r_file, r_init, r_pc, r_rec, r_seen, r_order>>
vars == <<mainVars, pathVars, transVars, loadVars, raceVars>>

(***************************************************************************)
(* Bounds of the model.                                                    *)
(***************************************************************************)
MaxRuns == 3
MaxPieces == 3
MaxCalls == 3
MaxDelta == 1

(***************************************************************************)
(* Strings.                                                                *)
(***************************************************************************)
CSV_EXT == <<".", "c", "s", "v">>
JSON_EXT == <<".", "j", "s", "o", "n">>

StartsWith(s, old) ==
    /\ Len(s) >= Len(old)
    /\ SubSeq(s, 1, Len(old)) = old

EndsWith(s, suf) ==
    /\ Len(s) >= Len(suf)
    /\ SubSeq(s, Len(s) - Len(suf) + 1, Len(s)) = suf

Contains(s, old) ==
    \E i \in 1..Len(s) : StartsWith(SubSeq(s, i, Len(s)), old)

\* str.replace(old, new) for a non-empty old: one left-to-right pass over
\* non-overlapping occurrences; the result is not scanned again.
RECURSIVE Replace(_, _, _)
Replace(s, old, new) ==
    IF Len(s) < Len(old) THEN s
    ELSE IF StartsWith(s, old)
         THEN new \o Replace(SubSeq(s, Len(old) + 1, Len(s)), old, new)
         ELSE <<Head(s)>> \o Replace(Tail(s), old, new)

\* json_file = OUTPUT.replace(".csv", "") + ".json"
AuditPathNoSuffix(OUTPUT) == Replace(OUTPUT, CSV_EXT, JSON_EXT)
AuditPath(OUTPUT) == Replace(OUTPUT, CSV_EXT, <<>>) \o JSON_EXT

(***************************************************************************)
(* JSON values.  A parsed body is None (JSON null) or a dict; a dict is    *)
(* its key set (keys, and pkeys for the nested iss_position dict) with     *)
(* the values of the keys it holds.  The value of a key the dict does not  *)
(* hold is never read; it is kept at a fixed filler.                       *)
(***************************************************************************)
None ==
    [kind |-> "None", keys |-> {}, pkeys |-> {}, timestamp |-> 0,
     latitude |-> "", longitude |-> "", message |-> ""]

Dict(keys, pkeys, ts, lat, lon, msg) ==
    LET pk == IF "iss_position" \in keys THEN pkeys ELSE {}
    IN  [kind |-> "dict", keys |-> keys, pkeys |-> pk,
         timestamp |-> IF "timestamp" \in keys THEN ts ELSE 0,
         latitude  |-> IF "latitude" \in pk THEN lat ELSE "",
         longitude |-> IF "longitude" \in pk THEN lon ELSE "",
         message   |-> IF "message" \in keys THEN msg ELSE ""]

TopKeys == {"timestamp", "iss_position", "message"}
PosKeys == {"latitude", "longitude"}

\* The four key paths transform reads.
HasAllFields(d) ==
    /\ d.kind = "dict"
    /\ d.keys = TopKeys
    /\ d.pkeys = PosKeys

(***************************************************************************)
(* Epoch seconds to calendar date-time: pd.to_datetime(..., unit='s').     *)
(* The day number is converted with the era/day-of-era computation of the  *)
(* proleptic Gregorian calendar (a 400-year era holds 146097 days).        *)
(***************************************************************************)
CivilFromDays(z0) ==
    LET z   == z0 + 719468
        era == z \div 146097
        doe == z - era * 146097
        yoe == (doe - doe \div 1460 + doe \div 36524 - doe \div 146096) \div 365
        doy == doe - (365 * yoe + yoe \div 4 - yoe \div 100)
        mp  == (5 * doy + 2) \div 153
        d   == doy - (153 * mp + 2) \div 5 + 1
        m   == IF mp < 10 THEN mp + 3 ELSE mp - 9
        y   == yoe + era * 400 + (IF m <= 2 THEN 1 ELSE 0)
    IN  [year |-> y, month |-> m, day |-> d]

to_datetime_ms(ts) ==
    LET t    == ts \div 1000
        date == CivilFromDays(t \div 86400)
        sod  == t % 86400
    IN  [year |-> date.year, month |-> date.month, day |-> date.day,
         hour |-> sod \div 3600, minute |-> (sod % 3600) \div 60, second |-> sod % 60]

to_datetime(ts) ==
    LET date == CivilFromDays(ts \div 86400)
        sod  == ts % 86400
    IN  [year |-> date.year, month |-> date.month, day |-> date.day,
         hour |-> sod \div 3600, minute |-> (sod % 3600) \div 60, second |-> sod % 60]

NoRow ==
    [timestamp |-> to_datetime(0), latitude |-> "", longitude |-> "", message |-> ""]

(***************************************************************************)
(* transform(raw_data): the row dict is built by four subscriptions, each  *)
(* of which raises KeyError on an absent key (TypeError on None); the      *)
(* exception is not caught.  Otherwise the one-row frame is returned with  *)
(* its timestamp column converted.                                         *)
(***************************************************************************)
transform_get(raw_data) ==
    IF raw_data.kind # "dict" THEN [raised |-> "TypeError", df |-> NoRow]
    ELSE [raised |-> "",
          df |-> [timestamp |-> to_datetime(raw_data.timestamp),
                  latitude  |-> raw_data.latitude,
                  longitude |-> raw_data.longitude,
                  message   |-> raw_data.message]]

transform(raw_data) ==
    IF raw_data.kind # "dict" THEN [raised |-> "TypeError", df |-> NoRow]
    ELSE IF \/ "timestamp" \notin raw_data.keys
            \/ "iss_position" \notin raw_data.keys
            \/ "latitude" \notin raw_data.pkeys
            \/ "longitude" \notin raw_data.pkeys
            \/ "message" \notin raw_data.keys
         THEN [raised |-> "KeyError", df |-> NoRow]
    ELSE [raised |-> "",
          df |-> [timestamp |-> to_datetime(raw_data.timestamp),
                  latitude  |-> raw_data.latitude,
                  longitude |-> raw_data.longitude,
                  message   |-> raw_data.message]]

(***************************************************************************)
(* Files.  A file is absent, or holds a sequence of text tokens.           *)
(***************************************************************************)
NoFile == [exists |-> FALSE, data |-> <<>>]
File(data) == [exists |-> TRUE, data |-> data]

\* The lines of a text: every "\n" ends a line, and text after the last
\* "\n" is a last, unterminated line.
RECURSIVE SplitLines(_, _, _)
SplitLines(data, cur, open) ==
    IF data = <<>> THEN (IF open THEN <<cur>> ELSE <<>>)
    ELSE IF Head(data) = "\n" THEN <<cur>> \o SplitLines(Tail(data), "", FALSE)
    ELSE SplitLines(Tail(data), cur \o Head(data), TRUE)

Lines(data) == SplitLines(data, "", FALSE)

(***************************************************************************)
(* json.dump(data, f, indent=2).  Keys are written in the order            *)
(* timestamp, iss_position, message.                                       *)
(***************************************************************************)
Quoted(s) == "\"" \o s \o "\""

RECURSIVE JoinItems(_, _)
JoinItems(items, indent) ==
    IF items = <<>> THEN <<>>
    ELSE <<indent>> \o Head(items)
         \o (IF Len(items) > 1 THEN <<",", "\n">> \o JoinItems(Tail(items), indent)
             ELSE <<>>)

DumpObject(items, indent, closing) ==
    IF items = <<>> THEN <<"{}">>
    ELSE <<"{", "\n">> \o JoinItems(items, indent) \o <<"\n", closing>>

JsonDump(data) ==
    IF data.kind = "None" THEN <<"null">>
    ELSE LET pos == (IF "latitude" \in data.pkeys
                     THEN << <<"\"latitude\": " \o Quoted(data.latitude)>> >> ELSE <<>>)
                 \o (IF "longitude" \in data.pkeys
                     THEN << <<"\"longitude\": " \o Quoted(data.longitude)>> >> ELSE <<>>)
             top == (IF "timestamp" \in data.keys
                     THEN << <<"\"timestamp\": " \o ToString(data.timestamp)>> >> ELSE <<>>)
                 \o (IF "iss_position" \in data.keys
                     THEN << <<"\"iss_position\": ">> \o DumpObject(pos, "    ", "  }") >>
                     ELSE <<>>)
                 \o (IF "message" \in data.keys
                     THEN << <<"\"message\": " \o Quoted(data.message)>> >> ELSE <<>>)
         IN  DumpObject(top, "  ", "}")

(***************************************************************************)
(* extract(json_file).  resp is what the network gives: a connection       *)
(* failure, an error status, a body that is not JSON, or a parsed body.    *)
(* open_ok is whether open(json_file, 'w') succeeds.  data is assigned     *)
(* before the file is opened, and every exception is caught and logged.    *)
(***************************************************************************)
extract_retry(fsys, path, resp, open_ok) ==
    IF resp.kind # "OK"
    THEN [data |-> None, fs |-> fsys, gets |-> 2, writes |-> 0]
    ELSE IF ~open_ok
    THEN [data |-> resp.body, fs |-> fsys, gets |-> 1, writes |-> 0]
    ELSE [data |-> resp.body,
          fs |-> [fsys EXCEPT ![path] = File(JsonDump(resp.body))],
          gets |-> 1, writes |-> 1]

extract(fsys, path, resp, open_ok) ==
    IF resp.kind # "OK"
    THEN [data |-> None, fs |-> fsys, gets |-> 1, writes |-> 0]
    ELSE IF ~open_ok
    THEN [data |-> resp.body, fs |-> fsys, gets |-> 1, writes |-> 0]
    ELSE [data |-> resp.body,
          fs |-> [fsys EXCEPT ![path] = File(JsonDump(resp.body))],
          gets |-> 1, writes |-> 1]

(***************************************************************************)
(* DataFrame.to_csv(path, mode, header, index=False) of a one-row frame.   *)
(* A datetime column whose values all lie at midnight is written as dates  *)
(* only, any other with the time of day.  Field values hold no comma,      *)
(* quote or line break, so no field is quoted.                             *)
(***************************************************************************)
Pad2(n) == IF n < 10 THEN "0" \o ToString(n) ELSE ToString(n)

FormatDatetime(dt) ==
    LET date == ToString(dt.year) \o "-" \o Pad2(dt.month) \o "-" \o Pad2(dt.day)
    IN  IF dt.hour = 0 /\ dt.minute = 0 /\ dt.second = 0 THEN date
        ELSE date \o " " \o Pad2(dt.hour) \o ":" \o Pad2(dt.minute) \o ":" \o Pad2(dt.second)

HeaderRow == <<"timestamp", ",", "latitude", ",", "longitude", ",", "message", "\n">>

CsvRow(data_rec) ==
    <<FormatDatetime(data_rec.timestamp), ",", data_rec.latitude, ",",
      data_rec.longitude, ",", data_rec.message, "\n">>

to_csv(file, data_rec, mode, header) ==
    LET text == (IF header THEN HeaderRow ELSE <<>>) \o CsvRow(data_rec)
    IN  File(IF mode = "a" THEN file.data \o text ELSE text)

(***************************************************************************)
(* load(data_rec, output_name): the existence check, then the write.       *)
(***************************************************************************)
write_rechecked(file, data_rec, existed) ==
    IF file.exists THEN to_csv(file, data_rec, "a", FALSE)
    ELSE to_csv(file, data_rec, "w", TRUE)

write(file, data_rec, existed) ==
    IF existed THEN to_csv(file, data_rec, "a", FALSE)
    ELSE to_csv(file, data_rec, "w", TRUE)

load_no_header(file, data_rec) == to_csv(file, data_rec, "a", FALSE)

load_header_again(file, data_rec) == to_csv(file, data_rec, "a", TRUE)

load(file, data_rec) == write(file, data_rec, file.exists)

(***************************************************************************)
(* Inputs.                                                                 *)
(***************************************************************************)
FullBodies ==
    { Dict(TopKeys, PosKeys, 1609459200, "10.00", "20.00", "success"),
      Dict(TopKeys, PosKeys, 1609459205, "10.25", "20.31", "success"),
      Dict(TopKeys, PosKeys, 0, "-51.62", "-179.90", "success"),
      Dict(TopKeys, PosKeys, 951868799, "0.00", "0.00", "ok") }

\* Bodies that lack one of the keys transform reads, and the empty object.
PartialBodies ==
    { Dict(TopKeys \ {k}, PosKeys, 1609459200, "10.00", "20.00", "success") :
        k \in TopKeys }
    \cup { Dict(TopKeys, PosKeys \ {k}, 1609459200, "10.00", "20.00", "success") :
        k \in PosKeys }
    \cup { Dict({}, {}, 0, "", "", "") }

\* The bodies the runs of main receive.
MainBodies ==
    { b \in FullBodies : b.timestamp \in {0, 1609459200} } \cup PartialBodies \cup {None}

\* What one GET can give.
HttpResponses ==
    { [kind |-> k, body |-> None] :
        k \in {"ConnectionError", "HTTPError", "JSONDecodeError"} }
    \cup { [kind |-> "OK", body |-> b] : b \in MainBodies }

\* The FlatRecords load is given.
LoadRecords == { transform(b).df : b \in FullBodies }

\* Command-line arguments of main.
MainArgs == { <<"a">> \o CSV_EXT, <<"b">> }
MainPaths == MainArgs \cup { AuditPath(a) : a \in MainArgs }

(***************************************************************************)
(* Runs of main(), one after another, over one file system.                *)
(***************************************************************************)
MainInit ==
    /\ pc = "idle"
    /\ argv = <<>>
    /\ json_file = <<>>
    /\ raw = None
    /\ clean_data = NoRow
    /\ exit_status = -1
    /\ fs = [p \in MainPaths |-> NoFile]
    /\ runs = 0
    /\ stages = <<>>
    /\ gets = 0
    /\ writes = 0
    /\ csv_before = NoFile

\* The process is started: python iss.py [<output_file>]
Invoke ==
    /\ pc \in {"idle", "exited"}
    /\ runs < MaxRuns
    /\ \E args \in {<<>>} \cup { <<a>> : a \in MainArgs } :
          /\ argv' = args
          /\ csv_before' = IF args = <<>> THEN NoFile ELSE fs[args[1]]
    /\ pc' = "main"
    /\ runs' = runs + 1
    /\ json_file' = <<>>
    /\ raw' = None
    /\ clean_data' = NoRow
    /\ exit_status' = -1
    /\ stages' = <<>>
    /\ gets' = 0
    /\ writes' = 0
    /\ UNCHANGED fs

\* main, lines 79-85: the argument, then the audit path.
MainArgv ==
    /\ pc = "main"
    /\ IF argv = <<>>
       THEN /\ pc' = "exited"
            /\ exit_status' = 1
            /\ UNCHANGED json_file
       ELSE /\ pc' = "extract"
            /\ json_file' = AuditPath(argv[1])
            /\ UNCHANGED exit_status
    /\ UNCHANGED <<argv, raw, clean_data, fs, runs, stages, gets, writes, csv_before>>

\* main, lines 89-91: where main goes with what extract returned.
AfterExtractUnchecked(data) == "transform"

AfterExtract(data) == IF data = None THEN "exited" ELSE "transform"

\* main, lines 87-91: raw = extract(json_file), then the check of raw.
MainExtract ==
    /\ pc = "extract"
    /\ \E resp \in HttpResponses, open_ok \in BOOLEAN :
          /\ resp.kind # "OK" => open_ok
          /\ LET r == extract(fs, json_file, resp, open_ok)
             IN  /\ raw' = r.data
                 /\ fs' = r.fs
                 /\ gets' = gets + r.gets
                 /\ writes' = writes + r.writes
                 /\ pc' = AfterExtract(r.data)
                 /\ exit_status' = IF AfterExtract(r.data) = "exited" THEN 1 ELSE -1
    /\ stages' = Append(stages, "extract")
    /\ UNCHANGED <<argv, json_file, clean_data, runs, csv_before>>

\* main, line 93: clean_data = transform(raw); an exception ends the process
\* with a traceback and exit status 1.
MainTransform ==
    /\ pc = "transform"
    /\ LET t == transform(raw)
       IN  IF t.raised # ""
           THEN /\ pc' = "exited"
                /\ exit_status' = 1
                /\ UNCHANGED clean_data
           ELSE /\ pc' = "load"
                /\ clean_data' = t.df
                /\ UNCHANGED exit_status
    /\ stages' = Append(stages, "transform")
    /\ UNCHANGED <<argv, json_file, raw, fs, runs, gets, writes, csv_before>>

\* main, line 94: load(clean_data, OUTPUT); main returns, exit status 0.
MainLoad ==
    /\ pc = "load"
    /\ fs' = [fs EXCEPT ![argv[1]] = load(@, clean_data)]
    /\ stages' = Append(stages, "load")
    /\ pc' = "exited"
    /\ exit_status' = 0
    /\ UNCHANGED <<argv, json_file, raw, clean_data, runs, gets, writes, csv_before>>

(***************************************************************************)
(* The audit path derivation applied to path arguments built from pieces.  *)
(***************************************************************************)
PathPieces ==
    { <<"o", "u", "t">>, CSV_EXT, JSON_EXT, <<"/">>, <<".">>, <<".", "c">>, <<"s", "v">> }

RECURSIVE PathsOf(_)
PathsOf(n) ==
    IF n = 0 THEN {<<>>}
    ELSE PathsOf(n - 1) \cup { p \o q : p \in PathsOf(n - 1), q \in PathPieces }

PathInit ==
    /\ p_arg \in PathsOf(MaxPieces)
    /\ p_json = <<>>

PathIdle ==
    /\ p_arg = <<>>
    /\ p_json = <<>>

\* main, line 85
DerivePath ==
    /\ p_json = <<>>
    /\ p_json' = AuditPath(p_arg)
    /\ UNCHANGED p_arg

(***************************************************************************)
(* transform applied to one raw response.                                  *)
(***************************************************************************)
TsBases ==
    {0, 86400, 68256000, 951782400, 951868800, 1609459200, 1709251200, 2147483600}

TsSet == { b + d : b \in TsBases, d \in 0..MaxDelta }
         \cup { b - d : b \in TsBases, d \in 0..MaxDelta }

TransInputs ==
    { Dict(k, pk, ts, lat, "20.00", "success") :
        k \in SUBSET TopKeys, pk \in SUBSET PosKeys, ts \in TsSet,
        lat \in {"10.00", "-51.62"} }

NotCalled == [called |-> FALSE, raised |-> "", df |-> NoRow]

TransInit ==
    /\ t_raw \in TransInputs
    /\ t_out = NotCalled

TransIdle ==
    /\ t_raw = None
    /\ t_out = NotCalled

CallTransform ==
    /\ ~t_out.called
    /\ LET t == transform(t_raw)
       IN  t_out' = [called |-> TRUE, raised |-> t.raised, df |-> t.df]
    /\ UNCHANGED t_raw

(***************************************************************************)
(* Sequential calls of load on one path, each with a record not loaded     *)
(* before.                                                                 *)
(***************************************************************************)
InitialFiles ==
    { NoFile,
      File(<<>>),
      File(HeaderRow),
      File(HeaderRow \o <<"2020-01-01,1.00,2.00,success", "\n">>),
      File(<<"x">>),
      File(<<"lat,lon", "\n", "1,2", "\n">>),
      File(HeaderRow \o <<"2020-01-01,1.00,2.00,success">>) }

LoadInit ==
    /\ l_init \in InitialFiles
    /\ l_file = l_init
    /\ l_prev = l_init
    /\ l_calls = <<>>

LoadIdle ==
    /\ l_init = NoFile
    /\ l_file = NoFile
    /\ l_prev = NoFile
    /\ l_calls = <<>>

CallLoad ==
    /\ Len(l_calls) < MaxCalls
    /\ \E rec \in LoadRecords :
          /\ \A i \in 1..Len(l_calls) : l_calls[i] # rec
          /\ l_file' = load(l_file, rec)
          /\ l_calls' = Append(l_calls, rec)
    /\ l_prev' = l_file
    /\ UNCHANGED l_init

(***************************************************************************)
(* Two calls of load running concurrently on one path: each checks that    *)
(* the path exists, and later writes according to what it saw.             *)
(***************************************************************************)
Procs == {1, 2}

RaceInit ==
    /\ r_init \in {NoFile, File(HeaderRow)}
    /\ r_file = r_init
    /\ r_pc = [p \in Procs |-> "check"]
    /\ r_rec \in { f \in [Procs -> LoadRecords] : f[1] # f[2] }
    /\ r_seen = [p \in Procs |-> FALSE]
    /\ r_order = <<>>

RaceIdle ==
    /\ r_init = NoFile
    /\ r_file = NoFile
    /\ r_pc = [p \in Procs |-> "done"]
    /\ r_rec = [p \in Procs |-> NoRow]
    /\ r_seen = [p \in Procs |-> FALSE]
    /\ r_order = <<>>

\* load, line 65: os.path.exists(output_name)
RaceCheck(p) ==
    /\ r_pc[p] = "check"
    /\ r_seen' = [r_seen EXCEPT ![p] = r_file.exists]
    /\ r_pc' = [r_pc EXCEPT ![p] = "write"]
    /\ UNCHANGED <<r_file, r_init, r_rec, r_order>>

\* load, lines 66 and 68: the to_csv call of the branch taken
RaceWrite(p) ==
    /\ r_pc[p] = "write"
    /\ r_file' = write(r_file, r_rec[p], r_seen[p])
    /\ r_pc' = [r_pc EXCEPT ![p] = "done"]
    /\ r_order' = Append(r_order, p)
    /\ UNCHANGED <<r_init, r_rec, r_seen>>

(***************************************************************************)
(* Specifications.                                                         *)
(***************************************************************************)
Init == MainInit /\ PathIdle /\ TransIdle /\ LoadIdle /\ RaceIdle

Next ==
    \/ Invoke /\ UNCHANGED <<pathVars, transVars, loadVars, raceVars>>
    \/ MainArgv /\ UNCHANGED <<pathVars, transVars, loadVars, raceVars>>
    \/ MainExtract /\ UNCHANGED <<pathVars, transVars, loadVars, raceVars>>
    \/ MainTransform /\ UNCHANGED <<pathVars, transVars, loadVars, raceVars>>
    \/ MainLoad /\ UNCHANGED <<pathVars, transVars, loadVars, raceVars>>

Spec == Init /\ [][Next]_vars

PathSpecInit == MainInit /\ PathInit /\ TransIdle /\ LoadIdle /\ RaceIdle

PathNext == DerivePath /\ UNCHANGED <<mainVars, transVars, loadVars, raceVars>>

SpecPath == PathSpecInit /\ [][PathNext]_vars

TransSpecInit == MainInit /\ PathIdle /\ TransInit /\ LoadIdle /\ RaceIdle

TransNext == CallTransform /\ UNCHANGED <<mainVars, pathVars, loadVars, raceVars>>

SpecTransform == TransSpecInit /\ [][TransNext]_vars

LoadSpecInit == MainInit /\ PathIdle /\ TransIdle /\ LoadInit /\ RaceIdle

LoadNext == CallLoad /\ UNCHANGED <<mainVars, pathVars, transVars, raceVars>>

SpecLoad == LoadSpecInit /\ [][LoadNext]_vars

RaceSpecInit == MainInit /\ PathIdle /\ TransIdle /\ LoadIdle /\ RaceInit

RaceNext ==
    \E p \in Procs :
        \/ RaceCheck(p) /\ UNCHANGED <<mainVars, pathVars, transVars, loadVars>>
        \/ RaceWrite(p) /\ UNCHANGED <<mainVars, pathVars, transVars, loadVars>>

SpecRace == RaceSpecInit /\ [][RaceNext]_vars

(***************************************************************************)
(* Properties.                                                             *)
(***************************************************************************)
STAGE_ORDER == <<"extract", "transform", "load">>

Entered(stage) == \E i \in 1..Len(stages) : stages[i] = stage

HEADER_LINE == "timestamp,latitude,longitude,message"

\* The line of a record in the CSV file.
RowLine(rec) ==
    FormatDatetime(rec.timestamp) \o "," \o rec.latitude \o "," \o rec.longitude
        \o "," \o rec.message

\* C1: a run without the argument, or whose extract returned None, ends with
\* exit status 1, enters neither transform nor load and leaves the CSV file
\* as it was when the run started; a run that completed extract, transform
\* and load ends with exit status 0.
C1_ExitStatus ==
    /\ pc \in {"transform", "load"} => (argv # <<>> /\ raw # None)
    /\ pc = "exited" =>
          /\ (argv = <<>> \/ (Entered("extract") /\ raw = None)) =>
                /\ exit_status = 1
                /\ ~Entered("transform")
                /\ ~Entered("load")
                /\ argv # <<>> => fs[argv[1]] = csv_before
          /\ stages = STAGE_ORDER => exit_status = 0

C1_Witness ==
    /\ pc = "exited"
    /\ argv # <<>>
    /\ stages = <<"extract">>
    /\ raw = None
    /\ exit_status = 1
    /\ csv_before.exists

\* C2: once extract has returned, the audit file was written in this run
\* exactly when extract returned data (not None), and then it holds the
\* indented copy of the returned data.
C2_AuditWrittenIffData ==
    Entered("extract") =>
        /\ (raw # None) <=> (writes = 1)
        /\ writes = 1 => fs[json_file] = File(JsonDump(raw))

\* C3: after N >= 1 calls of load with distinct records on a path that did
\* not exist, the file's lines are the header line followed by the N records'
\* lines in call order.
C3_HeaderThenRows ==
    (~l_init.exists /\ Len(l_calls) >= 1) =>
        LET lines == Lines(l_file.data)
        IN  /\ Len(lines) = Len(l_calls) + 1
            /\ lines[1] = HEADER_LINE
            /\ \A i \in 1..Len(l_calls) : lines[i + 1] = RowLine(l_calls[i])
            /\ \A i \in 2..Len(lines) : lines[i] # HEADER_LINE

C3_Witness ==
    /\ ~l_init.exists
    /\ Len(l_calls) >= 2
    /\ Len(Lines(l_file.data)) = Len(l_calls) + 1

\* The last call of load added the record's line after the lines the file
\* held, and nothing else.
AppendedOneLine ==
    LET before == Lines(l_prev.data)
        after  == Lines(l_file.data)
    IN  /\ Len(after) = Len(before) + 1
        /\ SubSeq(after, 1, Len(before)) = before
        /\ after[Len(after)] = RowLine(l_calls[Len(l_calls)])

\* C4 (as claimed): a call of load on an existing path, whatever the file
\* holds, adds exactly one line, the record's, and leaves every earlier line
\* unchanged in its place.
C4_AnyContent ==
    (Len(l_calls) >= 1 /\ l_prev.exists) => AppendedOneLine

\* C4 (amended): a call of load on an existing path whose content is empty or
\* ends with a line terminator adds exactly one line, the record's, and
\* leaves every earlier line unchanged in its place.
C4_TerminatedContent ==
    ( /\ Len(l_calls) >= 1
      /\ l_prev.exists
      /\ (l_prev.data = <<>> \/ l_prev.data[Len(l_prev.data)] = "\n") )
    => AppendedOneLine

C4_Witness ==
    /\ Len(l_calls) = 1
    /\ l_prev = File(<<"lat,lon", "\n", "1,2", "\n">>)
    /\ Len(Lines(l_file.data)) = 3

\* C5: a run whose raw response lacks one of the four fields ends in transform
\* with a non-zero exit status and never enters load; the CSV file changes in
\* a run only by load, which is entered only with a record that holds the
\* four fields of a complete response.
C5_MissingFieldStopsRun ==
    /\ (Entered("transform") /\ ~HasAllFields(raw)) =>
          /\ pc = "exited"
          /\ exit_status = 1
          /\ ~Entered("load")
          /\ fs[argv[1]] = csv_before
    /\ (pc = "load" \/ Entered("load")) =>
          /\ HasAllFields(raw)
          /\ clean_data.latitude = raw.latitude
          /\ clean_data.longitude = raw.longitude
          /\ clean_data.message = raw.message
    /\ (argv # <<>> /\ fs[argv[1]] # csv_before) => Entered("load")

C5_Witness ==
    /\ pc = "exited"
    /\ Entered("transform")
    /\ raw.kind = "dict"
    /\ "longitude" \notin raw.pkeys
    /\ "iss_position" \in raw.keys
    /\ csv_before.exists
    /\ fs[argv[1]] = csv_before

\* C6: for a path argument that ends in .csv, the audit path is the argument
\* with that trailing extension replaced by .json.
C6_TrailingExtensionReplaced ==
    (p_json # <<>> /\ EndsWith(p_arg, CSV_EXT)) =>
        p_json = SubSeq(p_arg, 1, Len(p_arg) - Len(CSV_EXT)) \o JSON_EXT

IsLeap(y) == (y % 4 = 0 /\ y % 100 # 0) \/ y % 400 = 0

DaysInMonth(y, m) ==
    IF m = 2 THEN (IF IsLeap(y) THEN 29 ELSE 28)
    ELSE IF m \in {4, 6, 9, 11} THEN 30 ELSE 31

RECURSIVE DaysBeforeMonth(_, _)
DaysBeforeMonth(y, m) ==
    IF m = 1 THEN 0 ELSE DaysBeforeMonth(y, m - 1) + DaysInMonth(y, m - 1)

LeapDaysBefore(y) == (y - 1) \div 4 - (y - 1) \div 100 + (y - 1) \div 400

\* Seconds from 1970-01-01 00:00:00 to a calendar date-time.
EpochOf(dt) ==
    ( 365 * (dt.year - 1970) + LeapDaysBefore(dt.year) - LeapDaysBefore(1970)
      + DaysBeforeMonth(dt.year, dt.month) + dt.day - 1 ) * 86400
    + dt.hour * 3600 + dt.minute * 60 + dt.second

ValidDatetime(dt) ==
    /\ dt.month \in 1..12
    /\ dt.day \in 1..DaysInMonth(dt.year, dt.month)
    /\ dt.hour \in 0..23
    /\ dt.minute \in 0..59
    /\ dt.second \in 0..59

\* C7: for a response with all four fields, transform returns a record whose
\* latitude, longitude and message are the received values and whose
\* timestamp is the calendar date-time of the received epoch seconds.
C7_TransformRecord ==
    (t_out.called /\ HasAllFields(t_raw)) =>
        /\ t_out.raised = ""
        /\ t_out.df.latitude = t_raw.latitude
        /\ t_out.df.longitude = t_raw.longitude
        /\ t_out.df.message = t_raw.message
        /\ ValidDatetime(t_out.df.timestamp)
        /\ EpochOf(t_out.df.timestamp) = t_raw.timestamp
        /\ t_raw.timestamp = 0 =>
              t_out.df.timestamp = [year |-> 1970, month |-> 1, day |-> 1,
                                    hour |-> 0, minute |-> 0, second |-> 0]
        /\ t_raw.timestamp = 1609459200 =>
              t_out.df.timestamp = [year |-> 2021, month |-> 1, day |-> 1,
                                    hour |-> 0, minute |-> 0, second |-> 0]

C7_Witness ==
    /\ t_out.called
    /\ HasAllFields(t_raw)
    /\ t_raw.timestamp = 1609459200
    /\ t_raw.latitude = "-51.62"
    /\ t_out.df.timestamp.year = 2021

\* C8: a run that was given the argument issues exactly one GET, and the
\* stages it enters are extract, transform, load in that order, each at most
\* once.
C8_OneGetStagesInOrder ==
    /\ gets <= 1
    /\ Len(stages) <= Len(STAGE_ORDER)
    /\ stages = SubSeq(STAGE_ORDER, 1, Len(stages))
    /\ (argv # <<>> /\ pc \in {"transform", "load", "exited"}) =>
          (gets = 1 /\ Entered("extract"))
    /\ pc = "extract" => (gets = 0 /\ stages = <<>>)

C8_Witness ==
    /\ pc = "exited"
    /\ runs >= 2
    /\ stages = <<"extract">>
    /\ raw = None
    /\ gets = 1

\* C9: when two concurrent calls of load on a path that does not exist both
\* check before either writes, the file they leave is not the header line
\* followed by the two records' lines: the second write replaces the first,
\* whose row is lost.
C9_RaceLosesRow ==
    ( /\ ~r_init.exists
      /\ \A p \in Procs : r_pc[p] = "done" /\ ~r_seen[p] )
    => LET lines == Lines(r_file.data)
       IN  /\ lines # <<HEADER_LINE, RowLine(r_rec[1]), RowLine(r_rec[2])>>
           /\ lines # <<HEADER_LINE, RowLine(r_rec[2]), RowLine(r_rec[1])>>
           /\ lines = <<HEADER_LINE, RowLine(r_rec[r_order[2]])>>

C9_Witness ==
    /\ ~r_init.exists
    /\ \A p \in Procs : r_pc[p] = "done" /\ ~r_seen[p]
    /\ Len(Lines(r_file.data)) = 2

\* C10: the audit path main derives is never the path argument itself.
C10_AuditPathDiffers ==
    p_json # <<>> => p_json # p_arg

C10_Witness ==
    /\ p_json # <<>>
    /\ EndsWith(p_arg, JSON_EXT)
    /\ Contains(p_arg, CSV_EXT)
    /\ p_json # p_arg

====
